---- MODULE Spec2Model ----
(***************************************************************************)
(* Corsair Commander Pro driver (liquidctl/driver/commander_pro.py).       *)
(*                                                                         *)
(* The driver is a synchronous, single-caller facade over a HID transport  *)
(* with three calls: clear_enqueued_reports(), write(frame), read(length). *)
(* The model follows one caller-facing operation from its call to its      *)
(* return (or to the exception that ends it), one transport call per step. *)
(* `todo` holds the transport calls of the straight-line piece of code     *)
(* being executed, in source order; `ret` is the place in the code where   *)
(* control continues when they are done.                                   *)
(***************************************************************************)
EXTENDS Integers, Sequences, FiniteSets, TLC

(***************************************************************************)
(* Program constants                                                       *)
(***************************************************************************)
WRITE_LENGTH == 64
READ_LENGTH == 16

\* _Command
GET_FIRMWARE_VERSION == 2
GET_SOFTWARE_ID == 3
GET_BOOTLOADER_VERSION == 6
GET_THERMOMETER_CONFIG == 16
GET_TEMPERATURE == 17
GET_VOLTAGE == 18
GET_FAN_CONFIG == 32
GET_FAN_SPEED == 33
SET_FAN_SPEED_PERCENT == 35
SET_FAN_SPEED_RPM == 36
SET_FAN_SPEED_GRAPH == 37
SET_FAN_TEMP_INFO == 38
SET_FAN_MODE == 40
GET_LED_STRIP_MASK == 48
SET_LED_TRIGGER == 51
SET_LED_CLEAR == 52
SET_LED_MODE == 53
SET_LED_TEMP_INFO == 54
SET_LED_GROUP_CLEAR == 55
SET_LED_GROUP_MODE == 56
SET_LED_BRIGHTNESS == 57
GET_LED_COUNT == 58

\* _Channel
CHANNEL_1 == 0
CHANNEL_2 == 1

\* _FanID: the LED group offset of each fan
FAN_1 == 0
FAN_2 == 12
FAN_3 == 24
FAN_4 == 36
FAN_5 == 48
FAN_6 == 60

\* _LedType
STRIP == 10
HD_FAN == 12

\* _Effect
RAINBOW_WAVE == 0
COLOUR_SHIFT == 1
STATIC == 4

\* _Speed
HIGH == 0
SLOW == 2

\* _Direction
BACKWARD == 0
FORWARD == 1

\* _ColourMode
ALTERNATING == 0
RANDOM == 1

\* _Brightness
MAX == 100
LOW == 33

(***************************************************************************)
(* Bounds of the model                                                     *)
(***************************************************************************)
\* reports already buffered by the transport when an operation starts
MaxStale == 1
\* fanConfigs of a LedConfig
MaxGroups == 2
\* points of a speed profile
MaxProfile == 7
\* largest channel / fan / thermometer index a caller passes
MaxIndex == 7
\* largest duty a caller passes
MaxDuty == 101
\* largest temperature in degrees a caller passes
MaxTemperature == 656

(***************************************************************************)
(* Frames and byte encodings                                               *)
(***************************************************************************)
Byte == 0..255

\* bytearray(_READ_LENGTH): a request frame of the length of a response
bytearray_read == [j \in 0..(READ_LENGTH - 1) |-> 0]

\* bytearray(_WRITE_LENGTH)
bytearray == [j \in 0..(WRITE_LENGTH - 1) |-> 0]

\* int.to_bytes(n, length = 2, byteorder = 'big') is defined for 0..65535
\* and raises OverflowError elsewhere
Fits16(n) == n >= 0 /\ n <= 65535

\* to_bytes with byteorder = 'little'
to_bytes_little(n) == <<n % 256, n \div 256>>

to_bytes(n) == <<n \div 256, n % 256>>

\* int.from_bytes(b, byteorder = 'big') of a 2-byte slice
from_bytes(hi, lo) == hi * 256 + lo

\* a 16-byte report whose bytes 1..Len(s) are s and whose other bytes are 0
Report(s) == [j \in 0..(READ_LENGTH - 1) |-> IF j >= 1 /\ j <= Len(s) THEN s[j] ELSE 0]

(***************************************************************************)
(* Transport calls                                                         *)
(***************************************************************************)
Clr == [call |-> "clear"]

Wr(o, f) == [call |-> "write", obj |-> o, data |-> f]

Rd == [call |-> "read", len |-> READ_LENGTH]

VARIABLES
    pc,         \* place in the code of the running operation
    op,         \* the caller-facing operation that was called
    args,       \* its arguments
    todo,       \* transport calls of the current piece of code, in order
    ret,        \* where the code continues after them
    trace,      \* transport calls made so far by the operation
    queue,      \* reports the transport holds, oldest first
    resp,       \* the report returned by the last read
    heap,       \* number of bytearray objects allocated so far
    result,     \* "none", "ok" or the exception that ended the operation
    warned,     \* LOGGER.warning was called
    self,       \* LedConfig.apply: the LedConfig being applied
    final,      \* LedConfig.apply: the trigger frame
    buf,        \* LedConfig.apply: the buffer reused for every fanConfig
    idx,        \* loop index of the running loop
    conf,       \* get_*_status: the configuration report being decoded
    properties, \* the status samples collected so far
    inner,      \* the list a status query called by get_status is building
    retval,     \* the value the operation returned
    device      \* the slot statuses the device reports

vars == <<pc, op, args, todo, ret, trace, queue, resp, heap, result, warned,
          self, final, buf, idx, conf, properties, inner, retval, device>>

\* a report that was buffered before the operation started
StaleReport == [tag |-> 0, cmd |-> 0]

RECURSIVE StaleQueues(_)
StaleQueues(n) ==
    IF n = 0 THEN {<<>>}
    ELSE StaleQueues(n - 1) \cup {[j \in 1..n |-> StaleReport]}

NoDevice == [fans |-> <<0, 0, 0, 0, 0, 0>>, therm |-> <<0, 0, 0, 0>>]

NoBuf == [obj |-> 0, data |-> bytearray]

Init ==
    /\ pc = "idle"
    /\ op = "none"
    /\ args = <<>>
    /\ todo = <<>>
    /\ ret = "none"
    /\ trace = <<>>
    /\ queue \in StaleQueues(MaxStale)
    /\ resp = [tag |-> 0, data |-> Report(<<>>)]
    /\ heap = 0
    /\ result = "none"
    /\ warned = FALSE
    /\ self = <<>>
    /\ final = NoBuf
    /\ buf = NoBuf
    /\ idx = 0
    /\ conf = Report(<<>>)
    /\ properties = <<>>
    /\ inner = <<>>
    /\ retval = <<>>
    /\ device = NoDevice

\* the variables only LedConfig.apply and the status queries use
led == <<self, final, buf>>

status == <<conf, properties, inner, device>>

locals == <<led, idx, status, retval>>

(***************************************************************************)
(* Control flow helpers                                                    *)
(***************************************************************************)
\* an exception leaves the operation: nothing of it runs afterwards
Raise(e) ==
    /\ pc' = "raised"
    /\ result' = e
    /\ todo' = <<>>
    /\ ret' = "none"
    /\ heap' = heap

\* run the transport calls `calls`, then continue at `r`
Begin(calls, r) ==
    /\ pc' = "io"
    /\ todo' = calls
    /\ ret' = r
    /\ result' = result

\* the position after a transport call returned
Advance ==
    /\ todo' = Tail(todo)
    /\ pc' = IF Tail(todo) = <<>> THEN ret ELSE "io"
    /\ result' = IF Tail(todo) = <<>> /\ ret = "done" THEN "ok" ELSE result
    /\ ret' = ret

Writes(t) == SelectSeq(t, LAMBDA e : e.call = "write")

Reads(t) == SelectSeq(t, LAMBDA e : e.call = "read")

Clears(t) == SelectSeq(t, LAMBDA e : e.call = "clear")

(***************************************************************************)
(* The transport (liquidctl.driver.usb, outside this file)                 *)
(***************************************************************************)
\* what the device answers to a request with command byte cmd
Responses(cmd) ==
    IF cmd = GET_FAN_CONFIG THEN {Report(device.fans)}
    ELSE IF cmd = GET_THERMOMETER_CONFIG THEN {Report(device.therm)}
    ELSE IF cmd = GET_FAN_SPEED THEN {Report(<<4, 176>>), Report(<<0, 0>>)}
    ELSE IF cmd = GET_TEMPERATURE THEN {Report(<<10, 40>>)}
    ELSE IF cmd = GET_VOLTAGE THEN {Report(<<47, 24>>)}
    ELSE {Report(<<>>), Report(<<1, 2, 3, 4>>)}

clear_enqueued_reports ==
    /\ pc = "io"
    /\ Head(todo).call = "clear"
    /\ queue' = <<>>
    /\ trace' = Append(trace, Head(todo))
    /\ Advance
    /\ UNCHANGED <<op, args, resp, heap, warned, locals>>

write ==
    /\ pc = "io"
    /\ Head(todo).call = "write"
    /\ queue' = Append(queue, [tag |-> Len(Writes(trace)) + 1,
                               cmd |-> Head(todo).data[0]])
    /\ trace' = Append(trace, Head(todo))
    /\ Advance
    /\ UNCHANGED <<op, args, resp, heap, warned, locals>>

read ==
    /\ pc = "io"
    /\ Head(todo).call = "read"
    /\ queue # <<>>
    /\ \E d \in Responses(Head(queue).cmd) :
          resp' = [tag |-> Head(queue).tag, data |-> d]
    /\ queue' = Tail(queue)
    /\ trace' = Append(trace, [call |-> "read", len |-> Head(todo).len,
                               tag |-> Head(queue).tag])
    /\ Advance
    /\ UNCHANGED <<op, args, heap, warned, locals>>

\* write or read raises a communication error, which no code of the driver
\* catches; the call that failed is kept in the trace as an "error"
transport_error ==
    /\ pc = "io"
    /\ Head(todo).call \in {"write", "read"}
    /\ trace' = Append(trace, [call |-> "error", of |-> Head(todo)])
    /\ Raise("TransportError")
    /\ UNCHANGED <<op, args, queue, resp, warned, locals>>

(***************************************************************************)
(* Inputs                                                                  *)
(***************************************************************************)
Indexes == -1..MaxIndex

Duties == -1..MaxDuty

RpmSpeeds == {-1, 0, 20, 1000, 2500, 2501, 65535, 65536}

ExampleTemps == <<20, 30, 40, 60, 80, 100>>

ExampleSpeeds == <<800, 1000, 1250, 1500, 2000, 2500>>

TempLists ==
    {ExampleTemps, <<0, 1, 2, 3, 255, 655>>, <<20, 30, 40, 60, 80, 656>>,
     <<-50, 30, 40, 60, 80, 100>>, <<20, 30, 40, 60, 80>>,
     <<20, 30, 40, 60, 80, 100, 120>>, <<>>}

SpeedLists ==
    {ExampleSpeeds, <<0, 255, 256, 257, 65535, 1>>,
     <<800, 1000, 1250, 1500, 2000, 65536>>, <<800, 1000>>,
     <<800, 1000, 1250, 1500, 2000, 2500, 2600>>}

\* speed profiles of 0..MaxProfile (temperature, pwm percent) points: a rising
\* one and a falling one
Profiles ==
    UNION {{[j \in 1..k |-> <<20 + 10 * j, 10 * j>>],
            [j \in 1..k |-> <<60 - 5 * j, 100 - 12 * j>>]} : k \in 0..MaxProfile}

LedTemperatures == {-1, 0, 30, 65535, 65536}

SensorIndexes == {-1, 0, 3, 255, 256}

Temperatures == -50..MaxTemperature

FanModes == -1..3

\* the caller, idle, calls operation `name` with arguments `a`
Call(name, a) ==
    /\ op' = name
    /\ args' = a

(***************************************************************************)
(* LED control                                                             *)
(***************************************************************************)
Red == <<255, 0, 0>>

Green == <<0, 255, 0>>

Blue == <<0, 0, 255>>

White == <<255, 255, 255>>

Grey == <<1, 2, 3>>

FanConfig(fan, effect, speed, direction, colourMode, colour1, colour2, colour3) ==
    [fan |-> fan, effect |-> effect, speed |-> speed, direction |-> direction,
     colourMode |-> colourMode, colour1 |-> colour1, colour2 |-> colour2,
     colour3 |-> colour3]

LedConfig(channel, ledType, brightness, fanConfigs) ==
    [channel |-> channel, ledType |-> ledType, brightness |-> brightness,
     fanConfigs |-> fanConfigs]

\* the fanConfigs a caller of LedConfig.apply passes
FanConfigs ==
    {FanConfig(FAN_1, STATIC, HIGH, FORWARD, m, Red, Green, Blue) :
        m \in {ALTERNATING, RANDOM}}
    \cup {FanConfig(FAN_4, COLOUR_SHIFT, SLOW, BACKWARD, m, Grey, White, Grey) :
        m \in {ALTERNATING, RANDOM}}

RECURSIVE SeqsUpTo(_, _)
SeqsUpTo(S, n) ==
    IF n = 0 THEN {<<>>}
    ELSE SeqsUpTo(S, n - 1)
         \cup {Append(q, x) : q \in {r \in SeqsUpTo(S, n - 1) : Len(r) = n - 1}, x \in S}

LedConfigs ==
    {LedConfig(CHANNEL_1, HD_FAN, MAX, fs) : fs \in SeqsUpTo(FanConfigs, MaxGroups)}
    \cup {LedConfig(CHANNEL_2, STRIP, LOW, fs) : fs \in SeqsUpTo(FanConfigs, MaxGroups)}

\* the body of the loop over self.fanConfigs: buf after the assignments
FanFrame(b, fanConfig) ==
    LET b1 == [b EXCEPT ![2] = fanConfig.fan,
                        ![4] = fanConfig.effect,
                        ![5] = fanConfig.speed,
                        ![6] = fanConfig.direction,
                        ![7] = fanConfig.colourMode]
    IN  IF fanConfig.colourMode # RANDOM
        THEN [b1 EXCEPT ![9] = fanConfig.colour1[1],
                        ![10] = fanConfig.colour1[2],
                        ![11] = fanConfig.colour1[3],
                        ![12] = fanConfig.colour2[1],
                        ![13] = fanConfig.colour2[2],
                        ![14] = fanConfig.colour2[3],
                        ![15] = fanConfig.colour3[1],
                        ![16] = fanConfig.colour3[2],
                        ![17] = fanConfig.colour3[3]]
        ELSE b1

\* apply with init2 written before the response to init1 is read
apply_overlapped(config) ==
    LET init1 == [bytearray EXCEPT ![0] = SET_LED_GROUP_CLEAR]
        init2 == [bytearray EXCEPT ![0] = SET_LED_CLEAR]
        init3 == [bytearray EXCEPT ![0] = SET_LED_BRIGHTNESS,
                                   ![1] = 0,
                                   ![2] = config.brightness]
        init4 == [bytearray EXCEPT ![0] = SET_LED_GROUP_MODE,
                                   ![1] = 0,
                                   ![2] = 1]
    IN  /\ self' = config
        /\ final' = [obj |-> heap + 5,
                     data |-> [bytearray EXCEPT ![0] = SET_LED_TRIGGER, ![2] = 255]]
        /\ heap' = heap + 5
        /\ Begin(<<Clr,
                   Wr(heap + 1, init1),
                   Wr(heap + 2, init2), Rd, Rd,
                   Wr(heap + 3, init3), Rd,
                   Wr(heap + 4, init4), Rd>>, "apply_buf")

\* apply with a clear before every priming frame
apply_clearing(config) ==
    LET init1 == [bytearray EXCEPT ![0] = SET_LED_GROUP_CLEAR]
        init2 == [bytearray EXCEPT ![0] = SET_LED_CLEAR]
        init3 == [bytearray EXCEPT ![0] = SET_LED_BRIGHTNESS,
                                   ![1] = 0,
                                   ![2] = config.brightness]
        init4 == [bytearray EXCEPT ![0] = SET_LED_GROUP_MODE,
                                   ![1] = 0,
                                   ![2] = 1]
    IN  /\ self' = config
        /\ final' = [obj |-> heap + 5,
                     data |-> [bytearray EXCEPT ![0] = SET_LED_TRIGGER, ![2] = 255]]
        /\ heap' = heap + 5
        /\ Begin(<<Clr, Wr(heap + 1, init1), Rd,
                   Clr, Wr(heap + 2, init2), Rd,
                   Clr, Wr(heap + 3, init3), Rd,
                   Clr, Wr(heap + 4, init4), Rd>>, "apply_buf")

\* apply with the brightness one byte further on
apply_brightness3(config) ==
    LET init1 == [bytearray EXCEPT ![0] = SET_LED_GROUP_CLEAR]
        init2 == [bytearray EXCEPT ![0] = SET_LED_CLEAR]
        init3 == [bytearray EXCEPT ![0] = SET_LED_BRIGHTNESS,
                                   ![1] = 0,
                                   ![2] = 0,
                                   ![3] = config.brightness]
        init4 == [bytearray EXCEPT ![0] = SET_LED_GROUP_MODE,
                                   ![1] = 0,
                                   ![2] = 1]
    IN  /\ self' = config
        /\ final' = [obj |-> heap + 5,
                     data |-> [bytearray EXCEPT ![0] = SET_LED_TRIGGER, ![2] = 255]]
        /\ heap' = heap + 5
        /\ Begin(<<Clr,
                   Wr(heap + 1, init1), Rd,
                   Wr(heap + 2, init2), Rd,
                   Wr(heap + 3, init3), Rd,
                   Wr(heap + 4, init4), Rd>>, "apply_buf")

\* LedConfig.apply up to the read that follows init4
apply(config) ==
    LET init1 == [bytearray EXCEPT ![0] = SET_LED_GROUP_CLEAR]
        init2 == [bytearray EXCEPT ![0] = SET_LED_CLEAR]
        init3 == [bytearray EXCEPT ![0] = SET_LED_BRIGHTNESS,
                                   ![1] = 0,
                                   ![2] = config.brightness]
        init4 == [bytearray EXCEPT ![0] = SET_LED_GROUP_MODE,
                                   ![1] = 0,
                                   ![2] = 1]
    IN  /\ self' = config
        /\ final' = [obj |-> heap + 5,
                     data |-> [bytearray EXCEPT ![0] = SET_LED_TRIGGER, ![2] = 255]]
        /\ heap' = heap + 5
        /\ Begin(<<Clr,
                   Wr(heap + 1, init1), Rd,
                   Wr(heap + 2, init2), Rd,
                   Wr(heap + 3, init3), Rd,
                   Wr(heap + 4, init4), Rd>>, "apply_buf")

call_apply ==
    /\ pc = "idle"
    /\ \E config \in LedConfigs :
           /\ Call("apply", config)
           /\ apply(config)
           /\ UNCHANGED <<trace, queue, resp, warned, buf, idx, status, retval>>

\* buf = bytearray(_WRITE_LENGTH) and the bytes every fanConfig shares
apply_buf ==
    /\ pc = "apply_buf"
    /\ buf' = [obj |-> heap + 1,
               data |-> [bytearray EXCEPT ![0] = SET_LED_MODE,
                                          ![1] = self.channel,
                                          ![3] = self.ledType,
                                          ![8] = 255]]
    /\ heap' = heap + 1
    /\ idx' = 1
    /\ pc' = "apply_for"
    /\ UNCHANGED <<op, args, todo, ret, trace, queue, resp, result, warned,
                   self, final, status, retval>>

\* apply_for with the loop ending one fanConfig early
apply_for_short ==
    /\ pc = "apply_for"
    /\ IF idx < Len(self.fanConfigs)
       THEN /\ buf' = [buf EXCEPT !.data = FanFrame(buf.data, self.fanConfigs[idx])]
            /\ idx' = idx + 1
            /\ Begin(<<Wr(buf.obj, buf'.data), Rd>>, "apply_for")
       ELSE /\ Begin(<<Wr(final.obj, final.data), Rd>>, "done")
            /\ UNCHANGED <<buf, idx>>
    /\ UNCHANGED <<op, args, trace, queue, resp, heap, warned, self, final,
                   status, retval>>

\* apply_for inside a try whose finally clause writes the trigger frame
apply_for_finally ==
    \/ /\ pc = "apply_for"
       /\ IF idx <= Len(self.fanConfigs)
          THEN /\ buf' = [buf EXCEPT !.data = FanFrame(buf.data, self.fanConfigs[idx])]
               /\ idx' = idx + 1
               /\ Begin(<<Wr(buf.obj, buf'.data), Rd>>, "apply_for")
          ELSE /\ Begin(<<Wr(final.obj, final.data), Rd>>, "done")
               /\ UNCHANGED <<buf, idx>>
       /\ UNCHANGED <<op, args, trace, queue, resp, heap, warned, self, final,
                      status, retval>>
    \/ /\ pc = "raised"
       /\ final.obj # 0
       /\ result = "TransportError"
       /\ \A j \in 1..Len(trace) :
              trace[j].call = "write" => trace[j].data[0] # SET_LED_TRIGGER
       /\ Begin(<<Wr(final.obj, final.data), Rd>>, "raised")
       /\ UNCHANGED <<op, args, trace, queue, resp, heap, warned, self, final,
                      buf, idx, status, retval>>

\* apply_for leaving out the frame of a group when the last response was
\* not all zero
apply_for_on_response ==
    /\ pc = "apply_for"
    /\ IF idx <= Len(self.fanConfigs)
       THEN IF resp.data[1] = 0
            THEN /\ buf' = [buf EXCEPT !.data = FanFrame(buf.data, self.fanConfigs[idx])]
                 /\ idx' = idx + 1
                 /\ Begin(<<Wr(buf.obj, buf'.data), Rd>>, "apply_for")
            ELSE /\ idx' = idx + 1
                 /\ UNCHANGED <<pc, todo, ret, result, buf>>
       ELSE /\ Begin(<<Wr(final.obj, final.data), Rd>>, "done")
            /\ UNCHANGED <<buf, idx>>
    /\ UNCHANGED <<op, args, trace, queue, resp, heap, warned, self, final,
                   status, retval>>

\* for fanConfig in self.fanConfigs: ... ; then the trigger
apply_for ==
    /\ pc = "apply_for"
    /\ IF idx <= Len(self.fanConfigs)
       THEN /\ buf' = [buf EXCEPT !.data = FanFrame(buf.data, self.fanConfigs[idx])]
            /\ idx' = idx + 1
            /\ Begin(<<Wr(buf.obj, buf'.data), Rd>>, "apply_for")
       ELSE /\ Begin(<<Wr(final.obj, final.data), Rd>>, "done")
            /\ UNCHANGED <<buf, idx>>
    /\ UNCHANGED <<op, args, trace, queue, resp, heap, warned, self, final,
                   status, retval>>

\* _Effect[mode] and _Channel[channel]: the names a caller may pass
Effects == [RAINBOW_WAVE |-> RAINBOW_WAVE, COLOUR_SHIFT |-> COLOUR_SHIFT,
            STATIC |-> STATIC]

Channels == [CHANNEL_1 |-> CHANNEL_1, CHANNEL_2 |-> CHANNEL_2]

ColourLists ==
    {<<>>, <<Red>>, <<Grey, White>>, <<Red, Green, Blue>>,
     <<Red, Green, Blue, White>>}

\* PadColours appending the last colour given instead of [0, 0, 0]
RECURSIVE PadColours_last(_)
PadColours_last(colours) ==
    IF Len(colours) < 3
    THEN PadColours_last(Append(colours, colours[Len(colours)]))
    ELSE colours

\* while len(colours) < 3: colours.append([0, 0, 0])
RECURSIVE PadColours(_)
PadColours(colours) ==
    IF Len(colours) < 3 THEN PadColours(Append(colours, <<0, 0, 0>>)) ELSE colours

\* set_color addressing the LED groups by the linear fan index
set_color_linear(channel, mode, colors) ==
    IF mode \notin DOMAIN Effects THEN Raise("KeyError") /\ UNCHANGED <<self, final>>
    ELSE IF channel \notin DOMAIN Channels
         THEN Raise("KeyError") /\ UNCHANGED <<self, final>>
    ELSE IF Len(colors) < 1 THEN Raise("ValueError") /\ UNCHANGED <<self, final>>
    ELSE IF Len(colors) > 3 THEN Raise("ValueError") /\ UNCHANGED <<self, final>>
    ELSE LET colours == PadColours(colors)
             fans == <<0, 1, 2, 3, 4, 5>>
             configs == [j \in 1..Len(fans) |->
                            FanConfig(fans[j], Effects[mode], HIGH, FORWARD,
                                      ALTERNATING, colours[1], colours[2],
                                      colours[3])]
         IN  apply(LedConfig(Channels[channel], HD_FAN, MAX, configs))

set_color(channel, mode, colors) ==
    IF mode \notin DOMAIN Effects THEN Raise("KeyError") /\ UNCHANGED <<self, final>>
    ELSE IF channel \notin DOMAIN Channels
         THEN Raise("KeyError") /\ UNCHANGED <<self, final>>
    ELSE IF Len(colors) < 1 THEN Raise("ValueError") /\ UNCHANGED <<self, final>>
    ELSE IF Len(colors) > 3 THEN Raise("ValueError") /\ UNCHANGED <<self, final>>
    ELSE LET colours == PadColours(colors)
             fans == <<FAN_1, FAN_2, FAN_3, FAN_4, FAN_5, FAN_6>>
             configs == [j \in 1..Len(fans) |->
                            FanConfig(fans[j], Effects[mode], HIGH, FORWARD,
                                      ALTERNATING, colours[1], colours[2],
                                      colours[3])]
         IN  apply(LedConfig(Channels[channel], HD_FAN, MAX, configs))

call_set_color ==
    /\ pc = "idle"
    /\ \E channel \in {"CHANNEL_1", "CHANNEL_2", "led"},
          mode \in {"STATIC", "RAINBOW_WAVE", "off"}, colors \in ColourLists :
           /\ Call("set_color", [channel |-> channel, mode |-> mode, colors |-> colors])
           /\ set_color(channel, mode, colors)
           /\ UNCHANGED <<trace, queue, resp, warned, buf, idx, status, retval>>

notify_led_temperature(channel, temperature) ==
    IF channel < 0 \/ channel > 1 THEN Raise("ValueError")
    ELSE IF temperature < 0 \/ temperature > 65535 THEN Raise("ValueError")
    ELSE /\ heap' = heap + 1
         /\ Begin(<<Wr(heap + 1, [bytearray EXCEPT ![0] = SET_LED_TEMP_INFO,
                                                   ![1] = channel,
                                                   ![3] = to_bytes(temperature)[1],
                                                   ![4] = to_bytes(temperature)[2]]),
                    Rd>>, "done")

call_notify_led_temperature ==
    /\ pc = "idle"
    /\ \E channel \in Indexes, temperature \in LedTemperatures :
           /\ Call("notify_led_temperature",
                   [channel |-> channel, temperature |-> temperature])
           /\ notify_led_temperature(channel, temperature)
           /\ UNCHANGED <<trace, queue, resp, warned, locals>>

get_port_led_count ==
    /\ pc = "idle"
    /\ Call("get_port_led_count", <<>>)
    /\ heap' = heap + 1
    /\ Begin(<<Clr, Wr(heap + 1, [bytearray EXCEPT ![0] = GET_LED_COUNT]), Rd>>,
             "done")
    /\ UNCHANGED <<trace, queue, resp, warned, locals>>

(***************************************************************************)
(* Fan control                                                             *)
(***************************************************************************)
\* set_speed_percent with the upper duty check off by one
set_speed_percent_101(channel, duty) ==
    IF channel < 0 \/ channel > 5 THEN Raise("ValueError")
    ELSE IF duty > 101 \/ duty < 0 THEN Raise("ValueError")
    ELSE /\ heap' = heap + 1
         /\ Begin(<<Clr,
                    Wr(heap + 1, [bytearray EXCEPT ![0] = SET_FAN_SPEED_PERCENT,
                                                   ![1] = channel,
                                                   ![2] = duty]),
                    Rd>>, "done")

set_speed_percent(channel, duty) ==
    IF channel < 0 \/ channel > 5 THEN Raise("ValueError")
    ELSE IF duty > 100 \/ duty < 0 THEN Raise("ValueError")
    ELSE /\ heap' = heap + 1
         /\ Begin(<<Clr,
                    Wr(heap + 1, [bytearray EXCEPT ![0] = SET_FAN_SPEED_PERCENT,
                                                   ![1] = channel,
                                                   ![2] = duty]),
                    Rd>>, "done")

call_set_speed_percent ==
    /\ pc = "idle"
    /\ \E channel \in Indexes, duty \in Duties :
           /\ Call("set_speed_percent", [channel |-> channel, duty |-> duty])
           /\ set_speed_percent(channel, duty)
           /\ UNCHANGED <<trace, queue, resp, warned, locals>>

\* channel_index = int(channel); speed = int(duty)
set_fixed_speed(channel, duty) ==
    set_speed_percent(channel, duty)

call_set_fixed_speed ==
    /\ pc = "idle"
    /\ \E channel \in Indexes, duty \in Duties :
           /\ Call("set_fixed_speed", [channel |-> channel, duty |-> duty])
           /\ set_fixed_speed(channel, duty)
           /\ UNCHANGED <<trace, queue, resp, warned, locals>>

\* buf[1] = channel_index reads a name that set_speed_rpm never binds
set_speed_rpm(fan, speed) ==
    IF fan < 0 \/ fan > 5 THEN Raise("ValueError") /\ warned' = warned
    ELSE IF speed < 0 THEN Raise("ValueError") /\ warned' = warned
    ELSE /\ warned' = (warned \/ speed > 2500)
         /\ IF speed > 65535 THEN Raise("ValueError")
            ELSE Raise("NameError")

call_set_speed_rpm ==
    /\ pc = "idle"
    /\ \E fan \in Indexes, speed \in RpmSpeeds :
           /\ Call("set_speed_rpm", [fan |-> fan, speed |-> speed])
           /\ set_speed_rpm(fan, speed)
           /\ UNCHANGED <<trace, queue, resp, locals>>

\* GraphLoop with the byte pairs in little-endian order
RECURSIVE GraphLoop_little(_, _, _, _)
GraphLoop_little(b, i, temps, speeds) ==
    IF i > 5 THEN b
    ELSE LET temp_bytes == to_bytes(temps[i + 1] * 100)
             speed_bytes == to_bytes(speeds[i + 1])
         IN  GraphLoop_little([b EXCEPT ![3 + 2 * i] = temp_bytes[2],
                                        ![4 + 2 * i] = temp_bytes[1],
                                        ![15 + 2 * i] = speed_bytes[2],
                                        ![16 + 2 * i] = speed_bytes[1]],
                              i + 1, temps, speeds)

\* the loop of set_speed_graph over i in range(0, 6), from iteration i on
RECURSIVE GraphLoop(_, _, _, _)
GraphLoop(b, i, temps, speeds) ==
    IF i > 5 THEN b
    ELSE LET temp_bytes == to_bytes(temps[i + 1] * 100)
             speed_bytes == to_bytes(speeds[i + 1])
         IN  GraphLoop([b EXCEPT ![3 + 2 * i] = temp_bytes[1],
                                 ![4 + 2 * i] = temp_bytes[2],
                                 ![15 + 2 * i] = speed_bytes[1],
                                 ![16 + 2 * i] = speed_bytes[2]],
                       i + 1, temps, speeds)

\* set_speed_graph, returning to the place r of its caller
set_speed_graph_to(thermometer, fan, temps, speeds, r) ==
    IF fan < 0 \/ fan > 6 THEN Raise("ValueError")
    ELSE IF thermometer < 0 \/ thermometer > 3 THEN Raise("ValueError")
    ELSE IF Len(temps) # 6 THEN Raise("ValueError")
    ELSE IF Len(speeds) # 6 THEN Raise("ValueError")
    ELSE IF \E i \in 1..6 : ~Fits16(temps[i] * 100) \/ ~Fits16(speeds[i])
         THEN Raise("OverflowError")
    ELSE /\ heap' = heap + 1
         /\ Begin(<<Clr,
                    Wr(heap + 1,
                       GraphLoop([bytearray EXCEPT ![0] = SET_FAN_SPEED_GRAPH,
                                                   ![1] = fan,
                                                   ![2] = thermometer],
                                 0, temps, speeds)),
                    Rd>>, r)

set_speed_graph(thermometer, fan, temps, speeds) ==
    set_speed_graph_to(thermometer, fan, temps, speeds, "done")

\* set_speed_graph_example up to the loop
set_speed_graph_example ==
    /\ pc = "idle"
    /\ Call("set_speed_graph_example", <<>>)
    /\ idx' = 0
    /\ pc' = "set_speed_graph_example_for"
    /\ UNCHANGED <<todo, ret, trace, queue, resp, heap, result, warned, led,
                   status, retval>>

\* set_speed_graph_example_for with range(0, 5)
set_speed_graph_example_for_five ==
    /\ pc = "set_speed_graph_example_for"
    /\ IF idx <= 4
       THEN /\ set_speed_graph_to(0, idx, ExampleTemps, ExampleSpeeds,
                                  "set_speed_graph_example_for")
            /\ idx' = idx + 1
       ELSE /\ pc' = "done"
            /\ result' = "ok"
            /\ UNCHANGED <<todo, ret, heap, idx>>
    /\ UNCHANGED <<op, args, trace, queue, resp, warned, led, status, retval>>

\* for fan in range(0, 6): self.set_speed_graph(0, fan, temps, speeds)
set_speed_graph_example_for ==
    /\ pc = "set_speed_graph_example_for"
    /\ IF idx <= 5
       THEN /\ set_speed_graph_to(0, idx, ExampleTemps, ExampleSpeeds,
                                  "set_speed_graph_example_for")
            /\ idx' = idx + 1
       ELSE /\ pc' = "done"
            /\ result' = "ok"
            /\ UNCHANGED <<todo, ret, heap, idx>>
    /\ UNCHANGED <<op, args, trace, queue, resp, warned, led, status, retval>>

call_set_speed_graph ==
    /\ pc = "idle"
    /\ \E thermometer \in Indexes, fan \in Indexes,
          temps \in TempLists, speeds \in SpeedLists :
           /\ Call("set_speed_graph", [thermometer |-> thermometer, fan |-> fan,
                                       temps |-> temps, speeds |-> speeds])
           /\ set_speed_graph(thermometer, fan, temps, speeds)
           /\ UNCHANGED <<trace, queue, resp, warned, locals>>

\* PadLoop padding with the first point instead of the last
RECURSIVE PadLoop_first(_, _)
PadLoop_first(s, last) ==
    IF Len(s) < 6 THEN PadLoop_first(Append(s, s[1]), last) ELSE s

\* while len(s) < 6: s.append(last), last being final_temp or final_speed
RECURSIVE PadLoop(_, _)
PadLoop(s, last) ==
    IF Len(s) < 6 THEN PadLoop(Append(s, last), last) ELSE s

\* ProfileLists cutting a profile of more than 6 points down to its first 6
ProfileLists_cut(profile) ==
    LET temperatures == [j \in 1..Len(profile) |-> profile[j][1]]
        speeds == [j \in 1..Len(profile) |-> profile[j][2] * 25]
    IN  IF Len(temperatures) > 0 /\ Len(speeds) > 0
        THEN [temperatures |->
                  SubSeq(PadLoop(temperatures, temperatures[Len(temperatures)]), 1, 6),
              speeds |-> SubSeq(PadLoop(speeds, speeds[Len(speeds)]), 1, 6)]
        ELSE [temperatures |-> temperatures, speeds |-> speeds]

\* the temperatures and speeds set_speed_profile hands to set_speed_graph
ProfileLists(profile) ==
    LET temperatures == [j \in 1..Len(profile) |-> profile[j][1]]
        speeds == [j \in 1..Len(profile) |-> profile[j][2] * 25]
    IN  IF Len(temperatures) > 0 /\ Len(speeds) > 0
        THEN [temperatures |-> PadLoop(temperatures, temperatures[Len(temperatures)]),
              speeds |-> PadLoop(speeds, speeds[Len(speeds)])]
        ELSE [temperatures |-> temperatures, speeds |-> speeds]

\* fan_number = int(channel)
set_speed_profile(channel, profile) ==
    set_speed_graph(0, channel, ProfileLists(profile).temperatures,
                    ProfileLists(profile).speeds)

call_set_speed_profile ==
    /\ pc = "idle"
    /\ \E channel \in Indexes, profile \in Profiles :
           /\ Call("set_speed_profile", [channel |-> channel, profile |-> profile])
           /\ set_speed_profile(channel, profile)
           /\ UNCHANGED <<trace, queue, resp, warned, locals>>

send_temperature_info(sensor_index, temperature) ==
    IF sensor_index > 255 \/ sensor_index < 0 THEN Raise("ValueError")
    ELSE IF ~Fits16(temperature * 100) THEN Raise("OverflowError")
    ELSE /\ heap' = heap + 1
         /\ Begin(<<Wr(heap + 1,
                       [bytearray EXCEPT ![0] = SET_FAN_TEMP_INFO,
                                         ![1] = sensor_index,
                                         ![2] = to_bytes(temperature * 100)[1],
                                         ![3] = to_bytes(temperature * 100)[2]]),
                    Rd>>, "done")

call_send_temperature_info ==
    /\ pc = "idle"
    /\ \E sensor_index \in SensorIndexes, temperature \in Temperatures :
           /\ Call("send_temperature_info",
                   [sensor_index |-> sensor_index, temperature |-> temperature])
           /\ send_temperature_info(sensor_index, temperature)
           /\ UNCHANGED <<trace, queue, resp, warned, locals>>

set_fan_mode(fan, mode) ==
    IF fan < 0 \/ fan > 5 THEN Raise("ValueError")
    ELSE IF mode < 0 \/ mode > 2 THEN Raise("ValueError")
    ELSE /\ heap' = heap + 1
         /\ Begin(<<Wr(heap + 1, [bytearray EXCEPT ![0] = SET_FAN_MODE,
                                                   ![1] = 2,
                                                   ![2] = fan,
                                                   ![3] = mode]),
                    Rd>>, "done")

call_set_fan_mode ==
    /\ pc = "idle"
    /\ \E fan \in Indexes, mode \in FanModes :
           /\ Call("set_fan_mode", [fan |-> fan, mode |-> mode])
           /\ set_fan_mode(fan, mode)
           /\ UNCHANGED <<trace, queue, resp, warned, locals>>

(***************************************************************************)
(* Low level version info                                                  *)
(***************************************************************************)
get_firmware_version ==
    /\ pc = "idle"
    /\ Call("get_firmware_version", <<>>)
    /\ heap' = heap + 1
    /\ Begin(<<Clr, Wr(heap + 1, [bytearray EXCEPT ![0] = GET_FIRMWARE_VERSION]),
               Rd>>, "get_firmware_version_return")
    /\ UNCHANGED <<trace, queue, resp, warned, locals>>

\* return '%d.%d.%d' % (resp[1], resp[2], resp[3])
get_firmware_version_return ==
    /\ pc = "get_firmware_version_return"
    /\ retval' = <<resp.data[1], resp.data[2], resp.data[3]>>
    /\ pc' = "done"
    /\ result' = "ok"
    /\ UNCHANGED <<op, args, todo, ret, trace, queue, resp, heap, warned, led,
                   idx, status>>

get_software_id ==
    /\ pc = "idle"
    /\ Call("get_software_id", <<>>)
    /\ heap' = heap + 1
    /\ Begin(<<Clr, Wr(heap + 1, [bytearray EXCEPT ![0] = GET_SOFTWARE_ID]),
               Rd>>, "get_software_id_return")
    /\ UNCHANGED <<trace, queue, resp, warned, locals>>

\* return '%d.%d.%d.%d' % (resp[1], resp[2], resp[3], resp[4])
get_software_id_return ==
    /\ pc = "get_software_id_return"
    /\ retval' = <<resp.data[1], resp.data[2], resp.data[3], resp.data[4]>>
    /\ pc' = "done"
    /\ result' = "ok"
    /\ UNCHANGED <<op, args, todo, ret, trace, queue, resp, heap, warned, led,
                   idx, status>>

get_bootloader_version ==
    /\ pc = "idle"
    /\ Call("get_bootloader_version", <<>>)
    /\ heap' = heap + 1
    /\ Begin(<<Clr, Wr(heap + 1, [bytearray EXCEPT ![0] = GET_BOOTLOADER_VERSION]),
               Rd>>, "get_bootloader_version_return")
    /\ UNCHANGED <<trace, queue, resp, warned, locals>>

\* return '%d.%d' % (resp[1], resp[2])
get_bootloader_version_return ==
    /\ pc = "get_bootloader_version_return"
    /\ retval' = <<resp.data[1], resp.data[2]>>
    /\ pc' = "done"
    /\ result' = "ok"
    /\ UNCHANGED <<op, args, todo, ret, trace, queue, resp, heap, warned, led,
                   idx, status>>

(***************************************************************************)
(* Get status functionality                                                *)
(***************************************************************************)
\* a device with the given status byte in one fan slot (1..6) or one
\* thermometer slot (7..10)
OneSlot(slot, b) ==
    IF slot <= 6
    THEN [NoDevice EXCEPT !.fans = [NoDevice.fans EXCEPT ![slot] = b]]
    ELSE [NoDevice EXCEPT !.therm = [NoDevice.therm EXCEPT ![slot - 6] = b]]

\* the devices get_status is run against
Devices ==
    {NoDevice}
    \cup {OneSlot(slot, b) : slot \in 1..10, b \in {1, 2, 3, 255}}
    \cup {[fans |-> <<1, 2, 1, 2, 1, 2>>, therm |-> <<1, 1, 1, 1>>],
          [fans |-> <<2, 0, 3, 1, 255, 0>>, therm |-> <<1, 0, 2, 255>>]}

\* a (property, value, unit) tuple; the property name is kept in its parts
Sample(kind, slot, what, value, unit) ==
    [kind |-> kind, slot |-> slot, what |-> what, value |-> value, unit |-> unit]

get_led_status(channel, r) ==
    /\ heap' = heap + 1
    /\ Begin(<<Clr,
               Wr(heap + 1, [bytearray EXCEPT ![0] = GET_LED_STRIP_MASK,
                                              ![1] = channel]),
               Rd>>, r)

\* get_status: self.get_led_status(_Channel.CHANNEL_1.value)
get_status ==
    /\ pc = "idle"
    /\ \E dev \in Devices :
           /\ Call("get_status", <<>>)
           /\ device' = dev
           /\ get_led_status(CHANNEL_1, "get_status_led2")
           /\ UNCHANGED <<trace, queue, resp, warned, led, idx, conf, properties,
                          inner, retval>>

\* get_status_led2 asking for the first channel again
get_status_led2_same ==
    /\ pc = "get_status_led2"
    /\ get_led_status(CHANNEL_1, "get_fan_status")
    /\ UNCHANGED <<op, args, trace, queue, resp, warned, locals>>

\* get_status: self.get_led_status(_Channel.CHANNEL_2.value)
get_status_led2 ==
    /\ pc = "get_status_led2"
    /\ get_led_status(CHANNEL_2, "get_fan_status")
    /\ UNCHANGED <<op, args, trace, queue, resp, warned, locals>>

\* get_fan_status up to the read of the configuration
get_fan_status ==
    /\ pc = "get_fan_status"
    /\ heap' = heap + 1
    /\ Begin(<<Clr, Wr(heap + 1, [bytearray EXCEPT ![0] = GET_FAN_CONFIG]), Rd>>,
             "get_fan_status_resp")
    /\ UNCHANGED <<op, args, trace, queue, resp, warned, locals>>

\* resp = self.device.read(_READ_LENGTH); properties = []
get_fan_status_resp ==
    /\ pc = "get_fan_status_resp"
    /\ conf' = resp.data
    /\ properties' = <<>>
    /\ idx' = 1
    /\ pc' = "get_fan_status_for"
    /\ UNCHANGED <<op, args, todo, ret, trace, queue, resp, heap, result, warned,
                   led, inner, retval, device>>

FanStatus(b) ==
    IF b = 0 THEN "disconnected"
    ELSE IF b = 1 THEN "connected (3 pins)"
    ELSE IF b = 2 THEN "connected (4 pins)"
    ELSE "unknown"

\* buf[1] = fanIndex raises ValueError unless fanIndex is in range(0, 256);
\* get_fan_speed_rpm makes no check of its own
get_fan_speed_rpm(fanIndex, r) ==
    IF fanIndex \notin Byte THEN Raise("ValueError")
    ELSE /\ heap' = heap + 1
         /\ Begin(<<Clr,
                    Wr(heap + 1, [bytearray EXCEPT ![0] = GET_FAN_SPEED,
                                                   ![1] = fanIndex]),
                    Rd>>, r)

\* a caller calls get_fan_speed_rpm itself
call_get_fan_speed_rpm ==
    /\ pc = "idle"
    /\ \E fanIndex \in Indexes :
           /\ Call("get_fan_speed_rpm", [fanIndex |-> fanIndex])
           /\ get_fan_speed_rpm(fanIndex, "get_fan_speed_rpm_value")
           /\ UNCHANGED <<trace, queue, resp, warned, locals>>

\* return int.from_bytes(resp[1:3], byteorder = 'big'), to that caller
get_fan_speed_rpm_value ==
    /\ pc = "get_fan_speed_rpm_value"
    /\ retval' = from_bytes(resp.data[1], resp.data[2])
    /\ pc' = "done"
    /\ result' = "ok"
    /\ UNCHANGED <<op, args, todo, ret, trace, queue, resp, heap, warned, led,
                   idx, status>>

\* get_fan_status_for asking the speed of 3-pin fans only
get_fan_status_for_3pin ==
    /\ pc = "get_fan_status_for"
    /\ IF idx <= 6
       THEN /\ properties' = Append(properties,
                                    Sample("Fan", idx, "status", FanStatus(conf[idx]), ""))
            /\ IF conf[idx] = 1
               THEN /\ get_fan_speed_rpm(idx - 1, "get_fan_speed_rpm_return")
                    /\ idx' = idx
               ELSE /\ idx' = idx + 1
                    /\ UNCHANGED <<pc, todo, ret, result, heap>>
       ELSE /\ pc' = "get_thermometer_status"
            /\ UNCHANGED <<todo, ret, result, heap, properties, idx>>
    /\ UNCHANGED <<op, args, trace, queue, resp, warned, led, conf, inner, retval,
                   device>>

\* for i in range(1, 7): one iteration up to the call of get_fan_speed_rpm;
\* after the loop get_status goes on to get_thermometer_status
get_fan_status_for ==
    /\ pc = "get_fan_status_for"
    /\ IF idx <= 6
       THEN /\ properties' = Append(properties,
                                    Sample("Fan", idx, "status", FanStatus(conf[idx]), ""))
            /\ IF conf[idx] = 1 \/ conf[idx] = 2
               THEN /\ get_fan_speed_rpm(idx - 1, "get_fan_speed_rpm_return")
                    /\ idx' = idx
               ELSE /\ idx' = idx + 1
                    /\ UNCHANGED <<pc, todo, ret, result, heap>>
       ELSE /\ pc' = "get_thermometer_status"
            /\ UNCHANGED <<todo, ret, result, heap, properties, idx>>
    /\ UNCHANGED <<op, args, trace, queue, resp, warned, led, conf, inner, retval,
                   device>>

\* return int.from_bytes(resp[1:3], byteorder = 'big'), appended by the caller
get_fan_speed_rpm_return ==
    /\ pc = "get_fan_speed_rpm_return"
    /\ properties' = Append(properties,
                            Sample("Fan", idx, "speed",
                                   from_bytes(resp.data[1], resp.data[2]), "rpm"))
    /\ idx' = idx + 1
    /\ pc' = "get_fan_status_for"
    /\ UNCHANGED <<op, args, todo, ret, trace, queue, resp, heap, result, warned,
                   led, conf, inner, retval, device>>

\* get_thermometer_status up to the read of the configuration
get_thermometer_status ==
    /\ pc = "get_thermometer_status"
    /\ heap' = heap + 1
    /\ Begin(<<Clr, Wr(heap + 1, [bytearray EXCEPT ![0] = GET_THERMOMETER_CONFIG]),
               Rd>>, "get_thermometer_status_resp")
    /\ UNCHANGED <<op, args, trace, queue, resp, warned, locals>>

\* resp = self.device.read(_READ_LENGTH); config = []
get_thermometer_status_resp ==
    /\ pc = "get_thermometer_status_resp"
    /\ conf' = resp.data
    /\ inner' = <<>>
    /\ idx' = 1
    /\ pc' = "get_thermometer_status_for"
    /\ UNCHANGED <<op, args, todo, ret, trace, queue, resp, heap, result, warned,
                   led, properties, retval, device>>

\* ThermometerStatus naming the status byte 2 as FanStatus does
ThermometerStatus_pins(b) ==
    IF b = 0 THEN "disconnected"
    ELSE IF b = 1 THEN "connected"
    ELSE IF b = 2 THEN "connected (4 pins)"
    ELSE "unknown"

ThermometerStatus(b) ==
    IF b = 0 THEN "disconnected"
    ELSE IF b = 1 THEN "connected"
    ELSE "unknown"

get_temperature(index, r) ==
    IF index < 0 \/ index > 3 THEN Raise("ValueError")
    ELSE /\ heap' = heap + 1
         /\ Begin(<<Clr,
                    Wr(heap + 1, [bytearray EXCEPT ![0] = GET_TEMPERATURE,
                                                   ![1] = index]),
                    Rd>>, r)

\* get_thermometer_status_for asking the temperature of every slot that is
\* not reported disconnected
get_thermometer_status_for_nonzero ==
    /\ pc = "get_thermometer_status_for"
    /\ IF idx <= 4
       THEN /\ inner' = Append(inner,
                               Sample("Thermometer", idx, "status",
                                      ThermometerStatus(conf[idx]), ""))
            /\ IF conf[idx] # 0
               THEN /\ get_temperature(idx - 1, "get_temperature_return")
                    /\ idx' = idx
               ELSE /\ idx' = idx + 1
                    /\ UNCHANGED <<pc, todo, ret, result, heap>>
            /\ UNCHANGED properties
       ELSE /\ properties' = properties \o inner
            /\ inner' = <<>>
            /\ idx' = 0
            /\ pc' = "get_power_status"
            /\ UNCHANGED <<todo, ret, result, heap>>
    /\ UNCHANGED <<op, args, trace, queue, resp, warned, led, conf, retval, device>>

\* a caller calls get_temperature itself
call_get_temperature ==
    /\ pc = "idle"
    /\ \E index \in Indexes :
           /\ Call("get_temperature", [index |-> index])
           /\ get_temperature(index, "get_temperature_value")
           /\ UNCHANGED <<trace, queue, resp, warned, locals>>

\* return int.from_bytes(resp[1:3], byteorder = 'big') / 100, to that caller
get_temperature_value ==
    /\ pc = "get_temperature_value"
    /\ retval' = [num |-> from_bytes(resp.data[1], resp.data[2]), den |-> 100]
    /\ pc' = "done"
    /\ result' = "ok"
    /\ UNCHANGED <<op, args, todo, ret, trace, queue, resp, heap, warned, led,
                   idx, status>>

\* for i in range(1, 5): one iteration up to the call of get_temperature;
\* after the loop get_status extends properties and goes on to
\* get_power_status
get_thermometer_status_for ==
    /\ pc = "get_thermometer_status_for"
    /\ IF idx <= 4
       THEN /\ inner' = Append(inner,
                               Sample("Thermometer", idx, "status",
                                      ThermometerStatus(conf[idx]), ""))
            /\ IF conf[idx] = 1
               THEN /\ get_temperature(idx - 1, "get_temperature_return")
                    /\ idx' = idx
               ELSE /\ idx' = idx + 1
                    /\ UNCHANGED <<pc, todo, ret, result, heap>>
            /\ UNCHANGED properties
       ELSE /\ properties' = properties \o inner
            /\ inner' = <<>>
            /\ idx' = 0
            /\ pc' = "get_power_status"
            /\ UNCHANGED <<todo, ret, result, heap>>
    /\ UNCHANGED <<op, args, trace, queue, resp, warned, led, conf, retval, device>>

\* return int.from_bytes(resp[1:3], byteorder = 'big') / 100, appended by the
\* caller; the quotient is kept as numerator and denominator
get_temperature_return ==
    /\ pc = "get_temperature_return"
    /\ inner' = Append(inner,
                       Sample("Thermometer", idx, "temperature",
                              [num |-> from_bytes(resp.data[1], resp.data[2]),
                               den |-> 100], "C"))
    /\ idx' = idx + 1
    /\ pc' = "get_thermometer_status_for"
    /\ UNCHANGED <<op, args, todo, ret, trace, queue, resp, heap, result, warned,
                   led, conf, properties, retval, device>>

get_voltage(sensor_index, r) ==
    IF sensor_index < 0 \/ sensor_index > 2 THEN Raise("ValueError")
    ELSE /\ heap' = heap + 1
         /\ Begin(<<Clr,
                    Wr(heap + 1, [bytearray EXCEPT ![0] = GET_VOLTAGE,
                                                   ![1] = sensor_index]),
                    Rd>>, r)

\* get_power_status with the rails put in front of the list get_status returns
get_power_status_first ==
    /\ pc = "get_power_status"
    /\ IF idx <= 2
       THEN /\ get_voltage(idx, "get_voltage_return")
            /\ UNCHANGED <<properties, inner, retval>>
       ELSE /\ properties' = inner \o properties
            /\ inner' = <<>>
            /\ retval' = properties'
            /\ pc' = "done"
            /\ result' = "ok"
            /\ UNCHANGED <<todo, ret, heap>>
    /\ UNCHANGED <<op, args, trace, queue, resp, warned, led, idx, conf, device>>

\* get_power_status: the next self.get_voltage(idx) of the three; after the
\* third, get_status extends properties and returns them
get_power_status ==
    /\ pc = "get_power_status"
    /\ IF idx <= 2
       THEN /\ get_voltage(idx, "get_voltage_return")
            /\ UNCHANGED <<properties, inner, retval>>
       ELSE /\ properties' = properties \o inner
            /\ inner' = <<>>
            /\ retval' = properties'
            /\ pc' = "done"
            /\ result' = "ok"
            /\ UNCHANGED <<todo, ret, heap>>
    /\ UNCHANGED <<op, args, trace, queue, resp, warned, led, idx, conf, device>>

\* the property names get_power_status gives the rails 0, 1, 2
Rails == <<"12V  rail", "5V   rail", "3.3V rail">>

\* return int.from_bytes(resp[1:3], byteorder = 'big') / 1000, appended by
\* the caller under the rail's name
get_voltage_return ==
    /\ pc = "get_voltage_return"
    /\ inner' = Append(inner,
                       Sample(Rails[idx + 1], idx, "voltage",
                              [num |-> from_bytes(resp.data[1], resp.data[2]),
                               den |-> 1000], "V"))
    /\ idx' = idx + 1
    /\ pc' = "get_power_status"
    /\ UNCHANGED <<op, args, todo, ret, trace, queue, resp, heap, result, warned,
                   led, conf, properties, retval, device>>

NextVersion ==
    \/ get_firmware_version
    \/ get_firmware_version_return
    \/ get_software_id
    \/ get_software_id_return
    \/ get_bootloader_version
    \/ get_bootloader_version_return

NextStatus ==
    \/ get_status
    \/ get_status_led2
    \/ get_fan_status
    \/ get_fan_status_resp
    \/ get_fan_status_for
    \/ get_fan_speed_rpm_return
    \/ call_get_fan_speed_rpm
    \/ get_fan_speed_rpm_value
    \/ call_get_temperature
    \/ get_temperature_value
    \/ get_thermometer_status
    \/ get_thermometer_status_resp
    \/ get_thermometer_status_for
    \/ get_temperature_return
    \/ get_power_status
    \/ get_voltage_return

NextFan ==
    \/ call_set_speed_percent
    \/ call_set_fixed_speed
    \/ call_set_speed_rpm
    \/ call_set_speed_graph
    \/ set_speed_graph_example
    \/ set_speed_graph_example_for
    \/ call_set_speed_profile
    \/ call_send_temperature_info
    \/ call_set_fan_mode

NextLed ==
    \/ call_apply
    \/ apply_buf
    \/ apply_for
    \/ call_set_color
    \/ call_notify_led_temperature
    \/ get_port_led_count

NextTransport ==
    \/ clear_enqueued_reports
    \/ write
    \/ read
    \/ transport_error

Next ==
    \/ NextLed
    \/ NextFan
    \/ NextVersion
    \/ NextStatus
    \/ NextTransport

Spec == Init /\ [][Next]_vars

(***************************************************************************)
(* Properties                                                              *)
(***************************************************************************)
\* LedConfig.apply is running or has run (called directly or by set_color)
Applying == final.obj # 0

\* the write and read calls of a trace, in order
IO(t) == SelectSeq(t, LAMBDA e : e.call \in {"write", "read"})

\* every byte of frame f outside the positions S is zero
ZeroOutside(f, S) == \A k \in (DOMAIN f) \ S : f[k] = 0

IsFrame(f) == DOMAIN f = 0..(WRITE_LENGTH - 1) /\ \A k \in DOMAIN f : f[k] \in Byte

\* the big-endian u16 at bytes k, k + 1 of frame f
Pair(f, k) == from_bytes(f[k], f[k + 1])

\* the command bytes a LedConfig with n fanConfigs is programmed with
LedCommands(n) ==
    <<SET_LED_GROUP_CLEAR, SET_LED_CLEAR, SET_LED_BRIGHTNESS, SET_LED_GROUP_MODE>>
    \o [j \in 1..n |-> SET_LED_MODE] \o <<SET_LED_TRIGGER>>

\* C1: the frames LedConfig.apply has written are at every moment a prefix of
\* GROUP_CLEAR, CLEAR, BRIGHTNESS, GROUP_MODE, one SET_LED_MODE per fanConfig in
\* the caller's order, TRIGGER; a completed apply has written all N + 5 of them.
C1_ApplyFrameOrder ==
    Applying =>
        LET w == Writes(trace)
            n == Len(self.fanConfigs)
        IN  /\ Len(w) <= n + 5
            /\ \A j \in 1..Len(w) : w[j].data[0] = LedCommands(n)[j]
            /\ \A j \in 1..n :
                   4 + j <= Len(w) =>
                       /\ w[4 + j].data[2] = self.fanConfigs[j].fan
                       /\ w[4 + j].data[4] = self.fanConfigs[j].effect
                       /\ w[4 + j].data[7] = self.fanConfigs[j].colourMode
            /\ (pc = "done" => Len(w) = n + 5)

C1_Witness ==
    /\ op = "apply"
    /\ pc = "done"
    /\ Len(self.fanConfigs) = 2
    /\ self.fanConfigs[1].fan # self.fanConfigs[2].fan
    /\ Len(Writes(trace)) = 7

\* C2: in every state of every operation the writes and reads alternate,
\* starting with a write; every read asks for 16 bytes; an operation that
\* completed has read as often as it has written.
C2_OneRequestInFlight ==
    LET io == IO(trace)
    IN  /\ \A j \in 1..Len(io) :
               io[j].call = (IF j % 2 = 1 THEN "write" ELSE "read")
        /\ \A j \in 1..Len(io) : io[j].call = "read" => io[j].len = READ_LENGTH
        /\ Len(Writes(trace)) - Len(Reads(trace)) \in {0, 1}
        /\ (pc = "done" => Len(Writes(trace)) = Len(Reads(trace)))

C2_Witness ==
    /\ op = "get_status"
    /\ pc = "done"
    /\ Len(Writes(trace)) = 17
    /\ Len(Reads(trace)) = 17

\* C3 (as claimed): a SET_LED_MODE frame whose colour mode byte is RANDOM has
\* zero in all nine colour bytes 9..17.
C3_RandomColoursZero ==
    \A j \in 1..Len(trace) :
        (/\ trace[j].call = "write"
         /\ trace[j].data[0] = SET_LED_MODE
         /\ trace[j].data[7] = RANDOM)
        => \A k \in 9..17 : trace[j].data[k] = 0

\* C4 (as claimed): each priming frame and the trigger frame is written right
\* after a clear; the per-group frames are not.
C4_ClearBeforePrimingAndTrigger ==
    Applying =>
        \A j \in 1..Len(trace) :
            trace[j].call = "write" =>
                IF trace[j].data[0] = SET_LED_MODE
                THEN j > 1 /\ trace[j - 1].call # "clear"
                ELSE j > 1 /\ trace[j - 1].call = "clear"

\* C4 (amended): LED programming clears the transport exactly once, as its
\* first transport call; every frame after the first priming frame is written
\* right after the previous frame's read.
C4_SingleClearFirst ==
    Applying =>
        /\ \A j \in 1..Len(trace) : (trace[j].call = "clear") <=> (j = 1)
        /\ \A j \in 1..Len(trace) :
               (trace[j].call = "write" /\ j > 2) => trace[j - 1].call = "read"
        /\ (pc = "done" => Len(Clears(trace)) = 1)

C4_Witness ==
    /\ op = "apply"
    /\ pc = "done"
    /\ Len(self.fanConfigs) = 2
    /\ Len(trace) = 15
    /\ trace[14].data[0] = SET_LED_TRIGGER
    /\ trace[13].call = "read"

\* C5 (as claimed): outside LED programming every write comes right after a
\* clear, and no read returns a report that was buffered before the operation.
C5_ClearBeforeEveryWrite ==
    ~Applying =>
        \A j \in 1..Len(trace) :
            /\ trace[j].call = "write" => (j > 1 /\ trace[j - 1].call = "clear")
            /\ trace[j].call = "read" => trace[j].tag # 0

BadGraphArguments ==
    \/ args.fan < 0 \/ args.fan > 5
    \/ args.thermometer < 0 \/ args.thermometer > 3
    \/ Len(args.temps) # 6
    \/ Len(args.speeds) # 6

\* C6 (as claimed): set_speed_graph called with a fan outside 0..5, a
\* thermometer outside 0..3 or a list that has not 6 entries makes no transport
\* call and does not complete: it ends in an error raised before the frame is
\* written.
C6_GraphRejectsBadArguments ==
    (op = "set_speed_graph" /\ BadGraphArguments) =>
        /\ trace = <<>>
        /\ pc # "done"
        /\ (pc = "raised" => result \in {"ValueError", "OverflowError"})

\* the layout of the frame of a speed graph
GraphFrame(f, fan, thermometer, temps, speeds) ==
    /\ IsFrame(f)
    /\ f[0] = SET_FAN_SPEED_GRAPH
    /\ f[1] = fan
    /\ f[2] = thermometer
    /\ \A i \in 0..5 :
           /\ Pair(f, 3 + 2 * i) = temps[i + 1] * 100
           /\ Pair(f, 15 + 2 * i) = speeds[i + 1]
    /\ ZeroOutside(f, 0..26)

\* C7: every frame set_speed_graph writes is 64 bytes, 0x25, fan, thermometer,
\* the six temperatures times 100 as big-endian pairs from byte 3, the six
\* speeds as big-endian pairs from byte 15, zero elsewhere; it writes one frame
\* at most and exactly one when it completes; for the example curve the pairs
\* are 2000..10000 and 800..2500.
C7_GraphFrameLayout ==
    op = "set_speed_graph" =>
        /\ Len(Writes(trace)) <= 1
        /\ (pc = "done" => Len(Writes(trace)) = 1)
        /\ \A j \in 1..Len(trace) :
               trace[j].call = "write" =>
                   /\ GraphFrame(trace[j].data, args.fan, args.thermometer,
                                 args.temps, args.speeds)
                   /\ (args.temps = ExampleTemps /\ args.speeds = ExampleSpeeds) =>
                          /\ [i \in 1..6 |-> Pair(trace[j].data, 1 + 2 * i)]
                                 = <<2000, 3000, 4000, 6000, 8000, 10000>>
                          /\ [i \in 1..6 |-> Pair(trace[j].data, 13 + 2 * i)]
                                 = <<800, 1000, 1250, 1500, 2000, 2500>>

C7_Witness ==
    /\ op = "set_speed_graph"
    /\ pc = "done"
    /\ args.fan = 0
    /\ args.thermometer = 0
    /\ args.temps = ExampleTemps
    /\ args.speeds = ExampleSpeeds
    /\ Len(Writes(trace)) = 1

\* the j-th point of a profile of k points padded with its last point
PaddedPoint(profile, j) ==
    profile[IF j <= Len(profile) THEN j ELSE Len(profile)]

\* C8: for a profile of 1..6 points the frame set_speed_profile writes carries
\* thermometer 0 and six points: the supplied ones (speed = pwm * 25) followed
\* by copies of the last supplied one.
C8_ProfilePadded ==
    (op = "set_speed_profile" /\ Len(args.profile) \in 1..6) =>
        /\ (pc = "done" => Len(Writes(trace)) = 1)
        /\ \A j \in 1..Len(trace) :
               trace[j].call = "write" =>
                   GraphFrame(trace[j].data, args.channel, 0,
                              [i \in 1..6 |-> PaddedPoint(args.profile, i)[1]],
                              [i \in 1..6 |-> PaddedPoint(args.profile, i)[2] * 25])

C8_Witness ==
    /\ op = "set_speed_profile"
    /\ pc = "done"
    /\ Len(args.profile) = 3
    /\ args.profile[1] # args.profile[3]
    /\ Len(Writes(trace)) = 1

C10_RpmWritesOneFrame ==
    op = "set_speed_rpm" =>
        IF args.fan \in 0..5 /\ args.speed \in 0..65535
        THEN /\ result \in {"none", "ok", "TransportError"}
             /\ (pc = "done" => Len(Writes(trace)) = 1)
             /\ \A j \in 1..Len(trace) :
                    trace[j].call = "write" =>
                        /\ trace[j].data[0] = SET_FAN_SPEED_RPM
                        /\ trace[j].data[1] = args.fan
                        /\ Pair(trace[j].data, 2) = args.speed
        ELSE /\ result = "ValueError"
             /\ trace = <<>>

\* a sequence s is a prefix of the sequence t
IsPrefix(s, t) == Len(s) <= Len(t) /\ \A j \in 1..Len(s) : s[j] = t[j]

\* command byte and argument byte of the frames written so far
Queries(t) == [j \in 1..Len(Writes(t)) |-> <<Writes(t)[j].data[0], Writes(t)[j].data[1]>>]

\* the speed queries of the fan slots i..6 with status byte 1 or 2
RECURSIVE FanQueries(_, _)
FanQueries(d, i) ==
    IF i > 6 THEN <<>>
    ELSE (IF d.fans[i] \in {1, 2} THEN <<<<GET_FAN_SPEED, i - 1>>>> ELSE <<>>)
         \o FanQueries(d, i + 1)

\* the temperature queries of the thermometer slots i..4 with status byte 1
RECURSIVE ThermometerQueries(_, _)
ThermometerQueries(d, i) ==
    IF i > 4 THEN <<>>
    ELSE (IF d.therm[i] = 1 THEN <<<<GET_TEMPERATURE, i - 1>>>> ELSE <<>>)
         \o ThermometerQueries(d, i + 1)

\* the frames of the status snapshot as the claim lists them
ListedQueries(d) ==
    <<<<GET_FAN_CONFIG, 0>>>> \o FanQueries(d, 1)
    \o <<<<GET_THERMOMETER_CONFIG, 0>>>> \o ThermometerQueries(d, 1)
    \o <<<<GET_VOLTAGE, 0>>, <<GET_VOLTAGE, 1>>, <<GET_VOLTAGE, 2>>>>

LedQueries == <<<<GET_LED_STRIP_MASK, CHANNEL_1>>, <<GET_LED_STRIP_MASK, CHANNEL_2>>>>

\* C11 (as claimed): the frames get_status writes are, in order, the fan
\* configuration query, the speed queries of the connected fans, the
\* thermometer configuration query, the temperature queries of the connected
\* thermometers and the voltage queries of rails 0, 1, 2, and no other frame.
C11_StatusQueriesAsListed ==
    op = "get_status" =>
        /\ IsPrefix(Queries(trace), ListedQueries(device))
        /\ (pc = "done" => Queries(trace) = ListedQueries(device))

\* C11 (amended): get_status first writes the two LED strip mask queries
\* (0x30) of channels 0 and 1 and then the frames listed by the claim, in that
\* order and no other frame; every frame is zero after its argument byte.
C11_StatusQueriesAfterLed ==
    op = "get_status" =>
        /\ IsPrefix(Queries(trace), LedQueries \o ListedQueries(device))
        /\ (pc = "done" => Queries(trace) = LedQueries \o ListedQueries(device))
        /\ \A j \in 1..Len(trace) :
               trace[j].call = "write" => ZeroOutside(trace[j].data, 0..1)

C11_Witness ==
    /\ op = "get_status"
    /\ pc = "done"
    /\ device.fans = <<2, 0, 3, 1, 255, 0>>
    /\ device.therm = <<1, 0, 2, 255>>
    /\ Len(Queries(trace)) = 10

\* the samples of a list that belong to one slot
SamplesOf(list, kind, slot) ==
    SelectSeq(list, LAMBDA s : s.kind = kind /\ s.slot = slot)

\* the number of frames written with command byte cmd and argument byte arg
Asked(cmd, arg) ==
    Len(SelectSeq(Queries(trace), LAMBDA q : q = <<cmd, arg>>))

\* in a list, a sample `what` of the slot comes right after its status sample
RightAfterStatus(list, kind, slot, what) ==
    \E k \in 1..(Len(list) - 1) :
        /\ list[k].kind = kind /\ list[k].slot = slot /\ list[k].what = "status"
        /\ list[k + 1].kind = kind /\ list[k + 1].slot = slot
        /\ list[k + 1].what = what

\* C12: when get_status has returned, every fan slot i whose status byte is 1
\* or 2 has a connectivity sample immediately followed by a speed sample, and
\* exactly one GET_FAN_SPEED frame was written for it; a slot whose status
\* byte is 0 has the connectivity sample only and no GET_FAN_SPEED frame.
C12_FanSamplesAndQueries ==
    (op = "get_status" /\ pc = "done") =>
        \A i \in 1..6 :
            /\ device.fans[i] \in {1, 2} =>
                   /\ Len(SamplesOf(retval, "Fan", i)) = 2
                   /\ RightAfterStatus(retval, "Fan", i, "speed")
                   /\ Asked(GET_FAN_SPEED, i - 1) = 1
            /\ device.fans[i] = 0 =>
                   /\ Len(SamplesOf(retval, "Fan", i)) = 1
                   /\ SamplesOf(retval, "Fan", i)[1].what = "status"
                   /\ Asked(GET_FAN_SPEED, i - 1) = 0

C12_Witness ==
    /\ op = "get_status"
    /\ pc = "done"
    /\ device.fans[2] = 2
    /\ device.fans[1] = 0
    /\ \E k \in 1..Len(retval) :
           retval[k].kind = "Fan" /\ retval[k].slot = 2 /\ retval[k].what = "speed"

\* C13: get_status raises nothing of its own, and when it has returned every
\* fan or thermometer slot whose status byte is none of 0, 1, 2 has exactly one
\* sample, a connectivity sample with the value 'unknown', no speed or
\* temperature frame was written for it, and every slot after it has its
\* connectivity sample.
C13_UnknownStatusByte ==
    op = "get_status" =>
        /\ result \in {"none", "ok", "TransportError"}
        /\ pc = "done" =>
               /\ \A i \in 1..6 :
                      /\ Len(SamplesOf(retval, "Fan", i)) >= 1
                      /\ device.fans[i] \notin {0, 1, 2} =>
                             /\ Len(SamplesOf(retval, "Fan", i)) = 1
                             /\ SamplesOf(retval, "Fan", i)[1].what = "status"
                             /\ SamplesOf(retval, "Fan", i)[1].value = "unknown"
                             /\ Asked(GET_FAN_SPEED, i - 1) = 0
               /\ \A i \in 1..4 :
                      /\ Len(SamplesOf(retval, "Thermometer", i)) >= 1
                      /\ device.therm[i] \notin {0, 1, 2} =>
                             /\ Len(SamplesOf(retval, "Thermometer", i)) = 1
                             /\ SamplesOf(retval, "Thermometer", i)[1].what = "status"
                             /\ SamplesOf(retval, "Thermometer", i)[1].value = "unknown"
                             /\ Asked(GET_TEMPERATURE, i - 1) = 0

C13_Witness ==
    /\ op = "get_status"
    /\ pc = "done"
    /\ device.fans[3] = 3
    /\ device.fans[4] = 1
    /\ device.therm[4] = 255
    /\ Len(SamplesOf(retval, "Fan", 4)) = 2

\* the place of a sample in the physical enumeration order
Rank(s) ==
    IF s.kind = "Fan" THEN s.slot
    ELSE IF s.kind = "Thermometer" THEN 6 + s.slot
    ELSE 11 + s.slot

\* C14: the list get_status returns holds the samples of fans 1..6 in
\* ascending slot order, then those of thermometers 1..4 in ascending slot
\* order, then the three rails 12V, 5V, 3.3V; each fan and thermometer slot has
\* exactly one connectivity sample, which is the first sample of the slot; the
\* list has between 13 and 23 samples.
C14_SnapshotOrder ==
    (op = "get_status" /\ pc = "done") =>
        LET n == Len(retval)
        IN  /\ n >= 13 /\ n <= 23
            /\ \A k \in 1..(n - 1) : Rank(retval[k]) <= Rank(retval[k + 1])
            /\ \A i \in 1..6 :
                   /\ Len(SelectSeq(SamplesOf(retval, "Fan", i),
                                    LAMBDA s : s.what = "status")) = 1
                   /\ SamplesOf(retval, "Fan", i)[1].what = "status"
            /\ \A i \in 1..4 :
                   /\ Len(SelectSeq(SamplesOf(retval, "Thermometer", i),
                                    LAMBDA s : s.what = "status")) = 1
                   /\ SamplesOf(retval, "Thermometer", i)[1].what = "status"
            /\ \A k \in 1..3 :
                   /\ retval[n - 3 + k].kind = Rails[k]
                   /\ retval[n - 3 + k].unit = "V"
            /\ \A k \in 1..(n - 3) : retval[k].kind \in {"Fan", "Thermometer"}

C14_Witness ==
    /\ op = "get_status"
    /\ pc = "done"
    /\ Len(retval) = 23
    /\ retval[23].kind = "3.3V rail"

\* C15: when a write or read of LED programming raises a transport error, the
\* operation ends with that error and the failed call is the last transport
\* call it makes: the failed frame is not written again, no later frame of the
\* sequence (the trigger included) and no other frame is written.
C15_NoCallAfterError ==
    Applying =>
        /\ \A j \in 1..Len(trace) :
               trace[j].call = "error" =>
                   /\ j = Len(trace)
                   /\ pc = "raised"
                   /\ result = "TransportError"
                   /\ todo = <<>>
        /\ result = "TransportError" =>
               (trace # <<>> /\ trace[Len(trace)].call = "error")

C15_Witness ==
    /\ op = "apply"
    /\ pc = "raised"
    /\ Len(self.fanConfigs) = 2
    /\ Len(Writes(trace)) = 5
    /\ trace[Len(trace)].call = "error"
    /\ trace[Len(trace)].of.call = "read"

\* the value get_temperature returns for the byte pair hi, lo: the quotient
\* num / den, which is the integer t exactly when num = t * den
Celsius(hi, lo) == [num |-> from_bytes(hi, lo), den |-> 100]

\* the temperature t survives encoding into bytes k, k + 1 of frame f and
\* decoding as get_temperature does
RoundTrip(f, k, t) == Celsius(f[k], f[k + 1]).num = t * Celsius(f[k], f[k + 1]).den

\* C16 (as claimed): for every temperature t in -50..650 send_temperature_info
\* encodes t * 100 without an error, and the pair it writes decodes to t.
C16_TemperatureRoundTrip ==
    (/\ op = "send_temperature_info"
     /\ args.sensor_index \in 0..255
     /\ args.temperature \in -50..650) =>
        /\ result \in {"none", "ok", "TransportError"}
        /\ (pc = "done" => Len(Writes(trace)) = 1)
        /\ \A j \in 1..Len(trace) :
               trace[j].call = "write" =>
                   RoundTrip(trace[j].data, 2, args.temperature)

\* C16 (amended): for every temperature t in 0..655 the encoding succeeds and
\* the pair written by send_temperature_info or set_speed_graph decodes to t;
\* for t in -50..-1 send_temperature_info ends in OverflowError before any
\* transport call.
C16_UnsignedRoundTrip ==
    /\ (op = "send_temperature_info" /\ args.sensor_index \in 0..255) =>
           /\ args.temperature \in 0..655 =>
                  /\ result \in {"none", "ok", "TransportError"}
                  /\ (pc = "done" => Len(Writes(trace)) = 1)
                  /\ \A j \in 1..Len(trace) :
                         trace[j].call = "write" =>
                             RoundTrip(trace[j].data, 2, args.temperature)
           /\ args.temperature \in -50..-1 =>
                  /\ result = "OverflowError"
                  /\ trace = <<>>
    /\ op = "set_speed_graph" =>
           \A j \in 1..Len(trace) :
               trace[j].call = "write" =>
                   \A i \in 1..6 :
                       /\ args.temps[i] \in 0..655
                       /\ RoundTrip(trace[j].data, 1 + 2 * i, args.temps[i])

C16_Witness ==
    /\ op = "send_temperature_info"
    /\ pc = "done"
    /\ args.temperature = 655
    /\ args.sensor_index = 3
    /\ Len(Writes(trace)) = 1
    /\ Writes(trace)[1].data[2] = 255
    /\ Writes(trace)[1].data[3] = 220

\* the SET_LED_MODE frames written so far
GroupFrames(t) == SelectSeq(Writes(t), LAMBDA e : e.data[0] = SET_LED_MODE)

\* C17: the SET_LED_MODE frames set_color writes carry in byte 2, in order,
\* the strided offsets 12 * k of fan slots k = 0..5 (0x00, 0x0C, 0x18, 0x24,
\* 0x30, 0x3C), never the linear index; a set_color that completed has written
\* exactly six of them; the offsets are the values of FAN_1..FAN_6.
C17_StridedLedOffsets ==
    /\ <<FAN_1, FAN_2, FAN_3, FAN_4, FAN_5, FAN_6>> = [k \in 1..6 |-> 12 * (k - 1)]
    /\ op = "set_color" =>
           LET g == GroupFrames(trace)
           IN  /\ Len(g) <= 6
               /\ \A k \in 1..Len(g) : g[k].data[2] = 12 * (k - 1)
               /\ (pc = "done" => Len(g) = 6)

C17_Witness ==
    /\ op = "set_color"
    /\ pc = "done"
    /\ Len(GroupFrames(trace)) = 6
    /\ GroupFrames(trace)[4].data[2] = 36
    /\ GroupFrames(trace)[6].data[2] = 60

\* the values of _Command; those the modelled operations do not send are
\* READ_STATUS, WRITE_DEVICE_ID, START_FIRMWARE_UPDATE, WRITE_TEST_FLAG,
\* GET_FAN_SPEED_PWM, SET_FAN_FORCE, GET_FAN_MODE, SET_LED_VALUE and
\* SET_LED_COLOUR_VALUES
Command ==
    {GET_FIRMWARE_VERSION, GET_SOFTWARE_ID, GET_BOOTLOADER_VERSION,
     GET_THERMOMETER_CONFIG, GET_TEMPERATURE, GET_VOLTAGE, GET_FAN_CONFIG,
     GET_FAN_SPEED, SET_FAN_SPEED_PERCENT, SET_FAN_SPEED_RPM, SET_FAN_SPEED_GRAPH,
     SET_FAN_TEMP_INFO, SET_FAN_MODE, GET_LED_STRIP_MASK, SET_LED_TRIGGER,
     SET_LED_CLEAR, SET_LED_MODE, SET_LED_TEMP_INFO, SET_LED_GROUP_CLEAR,
     SET_LED_GROUP_MODE, SET_LED_BRIGHTNESS, GET_LED_COUNT}
    \cup {1, 4, 5, 7, 34, 39, 41, 49, 50}

\* the bytes of a frame that the operation sending command cmd assigns
Assigned(cmd) ==
    IF cmd \in {GET_TEMPERATURE, GET_VOLTAGE, GET_FAN_SPEED, GET_LED_STRIP_MASK}
    THEN 0..1
    ELSE IF cmd \in {SET_FAN_SPEED_PERCENT, SET_LED_BRIGHTNESS, SET_LED_GROUP_MODE}
    THEN 0..2
    ELSE IF cmd \in {SET_FAN_TEMP_INFO, SET_FAN_MODE} THEN 0..3
    ELSE IF cmd = SET_LED_TEMP_INFO THEN {0, 1, 3, 4}
    ELSE IF cmd = SET_LED_TRIGGER THEN {0, 2}
    ELSE IF cmd = SET_FAN_SPEED_GRAPH THEN 0..26
    ELSE IF cmd = SET_LED_MODE THEN 0..17
    ELSE {0}

C19_FreshFramePerWrite ==
    LET w == Writes(trace)
    IN  /\ \A i, j \in 1..Len(w) : i < j => w[i].obj # w[j].obj
        /\ \A i \in 1..Len(w) : w[i].obj = buf.obj => w[i].data = buf.data

\* the contents of the buffer of LedConfig.apply at the writes of the
\* fanConfigs i, i + 1, ..., starting from the contents b
RECURSIVE GroupData(_, _, _)
GroupData(b, fanConfigs, i) ==
    IF i > Len(fanConfigs) THEN <<>>
    ELSE <<FanFrame(b, fanConfigs[i])>>
         \o GroupData(FanFrame(b, fanConfigs[i]), fanConfigs, i + 1)

\* the frames of a LED programming sequence as a function of the LedConfig
Programmed(config) ==
    <<[bytearray EXCEPT ![0] = SET_LED_GROUP_CLEAR],
      [bytearray EXCEPT ![0] = SET_LED_CLEAR],
      [bytearray EXCEPT ![0] = SET_LED_BRIGHTNESS, ![2] = config.brightness],
      [bytearray EXCEPT ![0] = SET_LED_GROUP_MODE, ![2] = 1]>>
    \o GroupData([bytearray EXCEPT ![0] = SET_LED_MODE, ![1] = config.channel,
                                   ![3] = config.ledType, ![8] = 255],
                 config.fanConfigs, 1)
    \o <<[bytearray EXCEPT ![0] = SET_LED_TRIGGER, ![2] = 255]>>

\* C20: whatever the reads return, the frames LedConfig.apply has written are
\* the first frames of one sequence that depends on the LedConfig only, and
\* all of that sequence once apply has completed: two runs with the same
\* LedConfig write the same frames.
C20_FramesFromConfigOnly ==
    Applying =>
        LET w == [j \in 1..Len(Writes(trace)) |-> Writes(trace)[j].data]
        IN  /\ IsPrefix(w, Programmed(self))
            /\ (pc = "done" => w = Programmed(self))

\* a completed run in which the reads returned different contents
C20_Witness ==
    /\ op = "apply"
    /\ pc = "done"
    /\ Len(self.fanConfigs) = 2
    /\ resp.data[1] = 1
    /\ Len(Writes(trace)) = 7

\* what a returned snapshot holds for thermometer slot i when its status byte
\* counts as connected, as disconnected, as unknown
ThermometerConnected(i) ==
    /\ Len(SamplesOf(retval, "Thermometer", i)) = 2
    /\ SamplesOf(retval, "Thermometer", i)[1].what = "status"
    /\ SamplesOf(retval, "Thermometer", i)[1].value \notin {"disconnected", "unknown"}
    /\ RightAfterStatus(retval, "Thermometer", i, "temperature")
    /\ Asked(GET_TEMPERATURE, i - 1) = 1

ThermometerAlone(i, label) ==
    /\ Len(SamplesOf(retval, "Thermometer", i)) = 1
    /\ SamplesOf(retval, "Thermometer", i)[1].what = "status"
    /\ SamplesOf(retval, "Thermometer", i)[1].value = label
    /\ Asked(GET_TEMPERATURE, i - 1) = 0

\* C21 (as claimed): thermometer slots are decoded as fan slots are: status
\* byte 1 or 2 is connected and gets one temperature query with byte 1 = i - 1
\* and a temperature sample right after the connectivity sample, 0 is
\* disconnected, any other byte is unknown, both without a query.
C21_ThermometerLikeFan ==
    (op = "get_status" /\ pc = "done") =>
        \A i \in 1..4 :
            IF device.therm[i] \in {1, 2} THEN ThermometerConnected(i)
            ELSE IF device.therm[i] = 0 THEN ThermometerAlone(i, "disconnected")
            ELSE ThermometerAlone(i, "unknown")

\* C21 (amended): only the status byte 1 is connected for a thermometer slot;
\* 0 is disconnected and any other byte, 2 included, is unknown, both without
\* a temperature query.
C21_ThermometerDecoding ==
    (op = "get_status" /\ pc = "done") =>
        \A i \in 1..4 :
            IF device.therm[i] = 1
            THEN /\ ThermometerConnected(i)
                 /\ SamplesOf(retval, "Thermometer", i)[1].value = "connected"
            ELSE IF device.therm[i] = 0 THEN ThermometerAlone(i, "disconnected")
            ELSE ThermometerAlone(i, "unknown")

C21_Witness ==
    /\ op = "get_status"
    /\ pc = "done"
    /\ device.therm = <<1, 0, 2, 255>>
    /\ Len(SamplesOf(retval, "Thermometer", 1)) = 2
    /\ Len(SamplesOf(retval, "Thermometer", 3)) = 1

\* the j-th of the three colours set_color programs: the caller's, or black
Colour(colors, j) == IF j <= Len(colors) THEN colors[j] ELSE <<0, 0, 0>>

\* C22: set_color with no colour or more than three makes no transport call
\* and ends in an error (ValueError when mode and channel are valid names);
\* with one to three colours and valid names it runs one LED programming
\* sequence of 4 priming frames, 6 SET_LED_MODE frames and the trigger, and
\* every SET_LED_MODE frame carries in bytes 9..17 the caller's colours
\* followed by (0, 0, 0) up to three.
C22_SetColorColours ==
    op = "set_color" =>
        IF Len(args.colors) < 1 \/ Len(args.colors) > 3
        THEN /\ trace = <<>>
             /\ todo = <<>>
             /\ pc = "raised"
             /\ result \in {"ValueError", "KeyError"}
             /\ (args.mode \in DOMAIN Effects /\ args.channel \in DOMAIN Channels)
                    => result = "ValueError"
        ELSE (args.mode \in DOMAIN Effects /\ args.channel \in DOMAIN Channels) =>
                 LET w == Writes(trace)
                 IN  /\ Len(Clears(trace)) <= 1
                     /\ IsPrefix([j \in 1..Len(w) |-> w[j].data[0]], LedCommands(6))
                     /\ (pc = "done" => Len(w) = 11)
                     /\ \A j \in 1..Len(w) :
                            w[j].data[0] = SET_LED_MODE =>
                                \A c \in 1..3, k \in 1..3 :
                                    w[j].data[5 + 3 * c + k] = Colour(args.colors, c)[k]

C22_Witness ==
    /\ op = "set_color"
    /\ pc = "done"
    /\ args.colors = <<Grey, White>>
    /\ Len(GroupFrames(trace)) = 6
    /\ GroupFrames(trace)[6].data[9] = 1
    /\ GroupFrames(trace)[6].data[12] = 255
    /\ GroupFrames(trace)[6].data[15] = 0

\* the SET_LED_BRIGHTNESS frames written so far
BrightnessFrames(t) == SelectSeq(Writes(t), LAMBDA e : e.data[0] = SET_LED_BRIGHTNESS)

\* C23 (as claimed): the SET_LED_BRIGHTNESS frame has zero in bytes 1 and 2,
\* the brightness in byte 3 and zero in all later bytes.
C23_BrightnessAfterTwoZeros ==
    Applying =>
        \A j \in 1..Len(BrightnessFrames(trace)) :
            LET f == BrightnessFrames(trace)[j].data
            IN  /\ f[1] = 0
                /\ f[2] = 0
                /\ f[3] = self.brightness
                /\ ZeroOutside(f, {0, 3})

\* C23 (amended): the SET_LED_BRIGHTNESS frame has zero in byte 1, the
\* brightness in byte 2 and zero in all later bytes; LED programming writes
\* it once, as its third frame.
C23_BrightnessAfterOneZero ==
    Applying =>
        /\ \A j \in 1..Len(BrightnessFrames(trace)) :
               LET f == BrightnessFrames(trace)[j].data
               IN  /\ f[1] = 0
                   /\ f[2] = self.brightness
                   /\ ZeroOutside(f, {0, 2})
        /\ Len(BrightnessFrames(trace)) <= 1
        /\ (Len(Writes(trace)) >= 3 =>
               Writes(trace)[3].data[0] = SET_LED_BRIGHTNESS)

C23_Witness ==
    /\ op = "apply"
    /\ pc = "done"
    /\ self.brightness = LOW
    /\ Len(BrightnessFrames(trace)) = 1
    /\ BrightnessFrames(trace)[1].data[2] = 33
    /\ BrightnessFrames(trace)[1].data[3] = 0

\* the argument bytes of the frames written with command byte cmd, in order
Arguments(cmd) ==
    LET w == SelectSeq(Writes(trace), LAMBDA e : e.data[0] = cmd)
    IN  [j \in 1..Len(w) |-> w[j].data[1]]

\* the slots of the samples `what` of one kind in a list, in order
Slots(list, kind, what) ==
    LET q == SelectSeq(list, LAMBDA s : s.kind = kind /\ s.what = what)
    IN  [j \in 1..Len(q) |-> q[j].slot]

\* C24 (as claimed): every GET_FAN_SPEED frame carries a fan index in 0..5 and every
\* GET_TEMPERATURE frame a thermometer index in 0..3; in a returned snapshot
\* the speed sample of 'Fan i' comes from the frame with byte 1 = i - 1 and the
\* temperature sample of 'Thermometer j' from the frame with byte 1 = j - 1;
\* while a sub-query is running, its frame carries the index of the slot being
\* decoded.
C24_LinearSlotIndex ==
    /\ \A j \in 1..Len(Arguments(GET_FAN_SPEED)) : Arguments(GET_FAN_SPEED)[j] \in 0..5
    /\ \A j \in 1..Len(Arguments(GET_TEMPERATURE)) :
           Arguments(GET_TEMPERATURE)[j] \in 0..3
    /\ pc = "get_fan_speed_rpm_return" =>
           Arguments(GET_FAN_SPEED)[Len(Arguments(GET_FAN_SPEED))] = idx - 1
    /\ pc = "get_temperature_return" =>
           Arguments(GET_TEMPERATURE)[Len(Arguments(GET_TEMPERATURE))] = idx - 1
    /\ (op = "get_status" /\ pc = "done") =>
           /\ Arguments(GET_FAN_SPEED)
                  = [j \in 1..Len(Slots(retval, "Fan", "speed")) |->
                         Slots(retval, "Fan", "speed")[j] - 1]
           /\ Arguments(GET_TEMPERATURE)
                  = [j \in 1..Len(Slots(retval, "Thermometer", "temperature")) |->
                         Slots(retval, "Thermometer", "temperature")[j] - 1]

\* C25: set_speed_graph_example makes its transport calls in rounds of clear,
\* write, read, the write of round k + 1 carrying the example curve for fan k
\* and thermometer 0; a failed write or read is its last transport call; when
\* it has completed it has made six rounds, for fans 0..5.
C25_ExampleOneFramePerFan ==
    op = "set_speed_graph_example" =>
        /\ \A j \in 1..Len(trace) :
               IF trace[j].call = "error"
               THEN /\ j = Len(trace)
                    /\ pc = "raised"
                    /\ todo = <<>>
                    /\ trace[j].of.call = (IF j % 3 = 2 THEN "write" ELSE "read")
               ELSE /\ trace[j].call = (IF j % 3 = 1 THEN "clear"
                                        ELSE IF j % 3 = 2 THEN "write" ELSE "read")
                    /\ trace[j].call = "write" =>
                           GraphFrame(trace[j].data, (j - 2) \div 3, 0,
                                      ExampleTemps, ExampleSpeeds)
        /\ Len(trace) <= 18
        /\ (pc = "done" => Len(trace) = 18 /\ Len(Writes(trace)) = 6)

C25_Witness ==
    /\ op = "set_speed_graph_example"
    /\ pc = "raised"
    /\ Len(Writes(trace)) = 3
    /\ trace[Len(trace)].call = "error"
    /\ trace[Len(trace)].of.call = "write"
    /\ trace[Len(trace)].of.data[1] = 3

\* C26: set_speed_profile with no point or with more than 6 points makes no
\* transport call and ends in ValueError: the lists reach set_speed_graph with
\* 0 or with more than 6 entries.
C26_ProfileWrongLength ==
    (op = "set_speed_profile" /\ Len(args.profile) \notin 1..6) =>
        /\ trace = <<>>
        /\ todo = <<>>
        /\ pc = "raised"
        /\ result = "ValueError"
        /\ Len(ProfileLists(args.profile).temperatures) = Len(args.profile)
        /\ Len(ProfileLists(args.profile).speeds) = Len(args.profile)

C26_Witness ==
    /\ op = "set_speed_profile"
    /\ Len(args.profile) = 7
    /\ args.channel = 0
    /\ pc = "raised"
    /\ result = "ValueError"

====
